---- MODULE Spec2Model ----
(***************************************************************************)
(* heapdump-analyzer: the HPROF 1.0.2 decoder (src/parser) and the         *)
(* resolver (src/analzyer).                                                *)
(*                                                                         *)
(* Spec         the decoder, ParsedHeap::parse, run on a byte buffer.      *)
(* SpecAnalyze  the resolver, AnalyzedHeap::analyze, run on a record list. *)
(*                                                                         *)
(* A byte is a number in 0..255.  A u8, u16, u32 or i32 is its numeric     *)
(* value.  A u64 is kept as its eight big-endian digits (u64::from_be_bytes*)
(* is a bijection and the decoder only stores and compares u64 values).    *)
(* A String is the sequence of its UTF-8 bytes.                            *)
(***************************************************************************)
EXTENDS Integers, Sequences, FiniteSets, TLC

VARIABLES
    \* ---- decoder (ParsedHeap::parse) ----
    src,              \* the records the input was written from (never read by the decoder)
    input,            \* contents: the bytes of the file
    pos,              \* cursor.position()
    pc,               \* where parse is: "header", "records", "segment", "version", "done", "error", "panic"
    err,              \* the error parse returned, "" when none
    version,          \* the 18 banner bytes read at the start
    timestamp,        \* the 8 timestamp bytes
    records,          \* the records pushed so far; the returned list when pc = "done"
    micros,           \* heap_dump_segment: its micros argument
    bytes_remaining,  \* heap_dump_segment: its bytes_remaining argument
    start_position,   \* heap_dump_segment: start_position
    sub_records,      \* heap_dump_segment: sub_records
    redecoded,        \* TRUE once the file got a trailing byte and is decoded again
    first_records,    \* the record list the first decoding returned
    \* ---- resolver (AnalyzedHeap::analyze) ----
    parsed_heap,      \* parsed_heap.records
    apc,              \* where analyze is: "pass1", "pass2", "done", "error"
    aerr,             \* the error analyze returned, "" when none
    strings,          \* HashMap<Id, String>
    classes,          \* HashMap<Id, Class>
    frames,           \* Vec<Frame>
    instances         \* HashMap<Id, Instance>

parse_vars == <<src, input, pos, pc, err, version, timestamp, records, micros,
                bytes_remaining, start_position, sub_records, redecoded, first_records>>
analyze_vars == <<parsed_heap, apc, aerr, strings, classes, frames, instances>>
vars == <<parse_vars, analyze_vars>>

(***************************************************************************)
(* parser/util.rs: the byte reader.  A read returns                        *)
(*   [ok, err, pos, val]: Ok(val) with the cursor at pos, or Err(err).     *)
(***************************************************************************)
Ok(p, v) == [ok |-> TRUE, err |-> "", pos |-> p, val |-> v]
Err(e, p) == [ok |-> FALSE, err |-> e, pos |-> p, val |-> <<>>]

\* Read::read_exact on the cursor: n bytes or an I/O error (unexpected EOF).
read_exact(buf, p, n) ==
    IF n <= Len(buf) - p
    THEN Ok(p + n, SubSeq(buf, p + 1, p + n))
    ELSE Err("Io", p)

\* uN::from_be_bytes
U16(bs) == bs[1] * 256 + bs[2]
U32(bs) == ((bs[1] * 256 + bs[2]) * 256 + bs[3]) * 256 + bs[4]
I32(bs) == (((IF bs[1] >= 128 THEN bs[1] - 256 ELSE bs[1]) * 256 + bs[2]) * 256 + bs[3]) * 256 + bs[4]
U64(bs) == bs

read_u8(buf, p) ==
    LET r == read_exact(buf, p, 1) IN IF r.ok THEN Ok(r.pos, r.val[1]) ELSE r

read_u16(buf, p) ==
    LET r == read_exact(buf, p, 2) IN IF r.ok THEN Ok(r.pos, U16(r.val)) ELSE r

read_u32(buf, p) ==
    LET r == read_exact(buf, p, 4) IN IF r.ok THEN Ok(r.pos, U32(r.val)) ELSE r

read_i32(buf, p) ==
    LET r == read_exact(buf, p, 4) IN IF r.ok THEN Ok(r.pos, I32(r.val)) ELSE r

read_u64(buf, p) ==
    LET r == read_exact(buf, p, 8) IN IF r.ok THEN Ok(r.pos, U64(r.val)) ELSE r

\* the substitution loop taking 0xC0 and any byte after it for the pair
RECURSIVE FixJavaUtf8_AnyByteAfterC0(_, _, _)
FixJavaUtf8_AnyByteAfterC0(buf, i, fixed_buf) ==
    IF i = Len(buf) THEN fixed_buf
    ELSE IF buf[i + 1] = 192 /\ i < Len(buf) - 1
         THEN FixJavaUtf8_AnyByteAfterC0(buf, i + 2, Append(fixed_buf, 0))
         ELSE FixJavaUtf8_AnyByteAfterC0(buf, i + 1, Append(fixed_buf, buf[i + 1]))

\* The substitution loop of read_utf8: i is the 0-based index into buf.
RECURSIVE FixJavaUtf8(_, _, _)
FixJavaUtf8(buf, i, fixed_buf) ==
    IF i = Len(buf) THEN fixed_buf
    ELSE IF buf[i + 1] = 192 /\ i < Len(buf) - 1 /\ buf[i + 2] = 128
         THEN FixJavaUtf8(buf, i + 2, Append(fixed_buf, 0))
         ELSE FixJavaUtf8(buf, i + 1, Append(fixed_buf, buf[i + 1]))

\* String::from_utf8: whether bs, from the 1-based index i on, is well-formed UTF-8.
IsCont(bs, i) == i <= Len(bs) /\ bs[i] >= 128 /\ bs[i] <= 191
InRange(bs, i, lo, hi) == i <= Len(bs) /\ bs[i] >= lo /\ bs[i] <= hi
RECURSIVE ValidUtf8From(_, _)
ValidUtf8From(bs, i) ==
    IF i > Len(bs) THEN TRUE
    ELSE LET b == bs[i] IN
         IF b < 128 THEN ValidUtf8From(bs, i + 1)
         ELSE IF b >= 194 /\ b <= 223
              THEN IsCont(bs, i + 1) /\ ValidUtf8From(bs, i + 2)
         ELSE IF b = 224
              THEN InRange(bs, i + 1, 160, 191) /\ IsCont(bs, i + 2) /\ ValidUtf8From(bs, i + 3)
         ELSE IF (b >= 225 /\ b <= 236) \/ b = 238 \/ b = 239
              THEN IsCont(bs, i + 1) /\ IsCont(bs, i + 2) /\ ValidUtf8From(bs, i + 3)
         ELSE IF b = 237
              THEN InRange(bs, i + 1, 128, 159) /\ IsCont(bs, i + 2) /\ ValidUtf8From(bs, i + 3)
         ELSE IF b = 240
              THEN InRange(bs, i + 1, 144, 191) /\ IsCont(bs, i + 2) /\ IsCont(bs, i + 3)
                   /\ ValidUtf8From(bs, i + 4)
         ELSE IF b >= 241 /\ b <= 243
              THEN IsCont(bs, i + 1) /\ IsCont(bs, i + 2) /\ IsCont(bs, i + 3)
                   /\ ValidUtf8From(bs, i + 4)
         ELSE IF b = 244
              THEN InRange(bs, i + 1, 128, 143) /\ IsCont(bs, i + 2) /\ IsCont(bs, i + 3)
                   /\ ValidUtf8From(bs, i + 4)
         ELSE FALSE

read_utf8(buf, p, size) ==
    LET r == read_exact(buf, p, size) IN
    IF ~r.ok THEN r
    ELSE LET fixed_buf == FixJavaUtf8(r.val, 0, <<>>) IN
         IF ValidUtf8From(fixed_buf, 1) THEN Ok(r.pos, fixed_buf) ELSE Err("BadUtf8", r.pos)

\* A run of fixed-width reads in source order, each with `?`: the raw bytes of
\* every field, or the first read's error.
RECURSIVE ReadAll(_, _, _, _)
ReadAll(buf, p, widths, acc) ==
    IF widths = <<>> THEN Ok(p, acc)
    ELSE LET r == read_exact(buf, p, Head(widths)) IN
         IF r.ok THEN ReadAll(buf, r.pos, Tail(widths), Append(acc, r.val)) ELSE r

(***************************************************************************)
(* parser/sub_record.rs                                                    *)
(***************************************************************************)
\* Field::new: the match on the type byte.  <<>> for an invalid type.
FieldValueShape(typ) ==
    CASE typ = 2 -> <<"NormalObject", 8>>
      [] typ = 4 -> <<"Boolean", 1>>
      [] typ = 5 -> <<"Char", 2>>
      [] typ = 6 -> <<"Float", 4>>
      [] typ = 7 -> <<"Double", 8>>
      [] typ = 8 -> <<"Byte", 1>>
      [] typ = 9 -> <<"Short", 2>>
      [] typ = 10 -> <<"Int", 4>>
      [] typ = 11 -> <<"Long", 8>>
      [] OTHER -> <<>>

\* prim_array_dump: the match on the array's type byte.  <<>> for an invalid type.
PrimArrayElementShape(typ) ==
    IF typ = 4 THEN <<"Bool", 1>>
    ELSE IF typ = 5 THEN <<"Char", 2>>
    ELSE IF typ = 6 THEN <<"Float", 4>>
    ELSE IF typ = 7 THEN <<"Double", 8>>
    ELSE IF typ = 8 THEN <<"Byte", 1>>
    ELSE IF typ = 9 THEN <<"Short", 2>>
    ELSE IF typ = 10 THEN <<"Int", 4>>
    ELSE IF typ = 11 THEN <<"Long", 8>>
    ELSE <<>>

\* read_u8 / read_u16 / read_u32 / read_u64 by width.
FromBe(bs) ==
    IF Len(bs) = 1 THEN bs[1]
    ELSE IF Len(bs) = 2 THEN U16(bs)
    ELSE IF Len(bs) = 4 THEN U32(bs)
    ELSE U64(bs)

FieldNew(buf, p) ==
    LET h == ReadAll(buf, p, <<8, 1>>, <<>>) IN
    IF ~h.ok THEN h
    ELSE LET name_id == U64(h.val[1])
             typ == h.val[2][1]
             shape == FieldValueShape(typ)
         IN  IF shape = <<>> THEN Err("BadFieldType", h.pos)
             ELSE LET v == read_exact(buf, h.pos, shape[2]) IN
                  IF ~v.ok THEN v
                  ELSE Ok(v.pos, [name_id |-> name_id,
                                  value |-> [variant |-> shape[1], v |-> FromBe(v.val)]])

\* for _ in 0..number_of_static_fields { static_fields.push(Field::new(r)?) }
RECURSIVE StaticFieldsLoop(_, _, _, _)
StaticFieldsLoop(buf, p, n, acc) ==
    IF n = 0 THEN Ok(p, acc)
    ELSE LET f == FieldNew(buf, p) IN
         IF f.ok THEN StaticFieldsLoop(buf, f.pos, n - 1, Append(acc, f.val)) ELSE f

\* for _ in 0..number_of_instance_fields { push(FieldDescriptor { read_u64?, read_u8? }) }
RECURSIVE InstanceFieldsLoop(_, _, _, _)
InstanceFieldsLoop(buf, p, n, acc) ==
    IF n = 0 THEN Ok(p, acc)
    ELSE LET f == ReadAll(buf, p, <<8, 1>>, <<>>) IN
         IF f.ok
         THEN InstanceFieldsLoop(buf, f.pos, n - 1,
                  Append(acc, [name_id |-> U64(f.val[1]), typ |-> f.val[2][1]]))
         ELSE f

class_dump(buf, p) ==
    LET h == ReadAll(buf, p, <<8, 4, 8, 8, 8, 8, 8, 8, 4, 2, 2>>, <<>>) IN
    IF ~h.ok THEN h
    ELSE LET number_of_static_fields == U16(h.val[11])
             s == StaticFieldsLoop(buf, h.pos, number_of_static_fields, <<>>)
         IN  IF ~s.ok THEN s
             ELSE LET c == read_u16(buf, s.pos) IN
                  IF ~c.ok THEN c
                  ELSE LET d == InstanceFieldsLoop(buf, c.pos, c.val, <<>>) IN
                       IF ~d.ok THEN d
                       ELSE Ok(d.pos,
                               [variant |-> "ClassDump",
                                class_object_id |-> U64(h.val[1]),
                                stack_trace_serial_number |-> U32(h.val[2]),
                                super_class_object_id |-> U64(h.val[3]),
                                class_loader_object_id |-> U64(h.val[4]),
                                signers_object_id |-> U64(h.val[5]),
                                protection_domain_object_id |-> U64(h.val[6]),
                                reserved1 |-> U64(h.val[7]),
                                reserved2 |-> U64(h.val[8]),
                                instance_size |-> U32(h.val[9]),
                                constant_pool_size |-> U16(h.val[10]),
                                number_of_static_fields |-> number_of_static_fields,
                                static_fields |-> s.val,
                                number_of_instance_fields |-> c.val,
                                instance_field_descriptors |-> d.val])

instance_dump(buf, p) ==
    LET h == ReadAll(buf, p, <<8, 4, 8, 4>>, <<>>) IN
    IF ~h.ok THEN h
    ELSE LET number_of_bytes == U32(h.val[4])
             raw == read_exact(buf, h.pos, number_of_bytes)
         IN  IF ~raw.ok THEN raw
             ELSE Ok(raw.pos,
                     [variant |-> "InstanceDump",
                      object_id |-> U64(h.val[1]),
                      stack_trace_serial_number |-> U32(h.val[2]),
                      class_object_id |-> U64(h.val[3]),
                      number_of_bytes |-> number_of_bytes,
                      raw_field_bytes |-> raw.val])

\* for _ in 0..number_of_elements { elements.push(read_u64(r)?) }
RECURSIVE ObjElementsLoop(_, _, _, _)
ObjElementsLoop(buf, p, n, acc) ==
    IF n = 0 THEN Ok(p, acc)
    ELSE LET e == read_u64(buf, p) IN
         IF e.ok THEN ObjElementsLoop(buf, e.pos, n - 1, Append(acc, e.val)) ELSE e

\* obj_array_dump reading array_class_id before number_of_elements
obj_array_dump_ClassIdFirst(buf, p) ==
    LET h == ReadAll(buf, p, <<8, 4, 8, 4>>, <<>>) IN
    IF ~h.ok THEN h
    ELSE LET e == ObjElementsLoop(buf, h.pos, U32(h.val[4]), <<>>) IN
         IF ~e.ok THEN e
         ELSE Ok(e.pos,
                 [variant |-> "ObjArrayDump",
                  object_id |-> U64(h.val[1]),
                  stack_trace_serial_number |-> U32(h.val[2]),
                  array_class_id |-> U64(h.val[3]),
                  elements |-> e.val])

obj_array_dump(buf, p) ==
    LET h == ReadAll(buf, p, <<8, 4, 4, 8>>, <<>>) IN
    IF ~h.ok THEN h
    ELSE LET e == ObjElementsLoop(buf, h.pos, U32(h.val[3]), <<>>) IN
         IF ~e.ok THEN e
         ELSE Ok(e.pos,
                 [variant |-> "ObjArrayDump",
                  object_id |-> U64(h.val[1]),
                  stack_trace_serial_number |-> U32(h.val[2]),
                  array_class_id |-> U64(h.val[4]),
                  elements |-> e.val])

\* the elements loop with the type byte matched before the count is looked at
RECURSIVE PrimElementsLoop_TypeCheckedFirst(_, _, _, _, _)
PrimElementsLoop_TypeCheckedFirst(buf, p, n, typ, acc) ==
    LET shape == PrimArrayElementShape(typ) IN
    IF shape = <<>> THEN Err("BadArrayType", p)
    ELSE IF n = 0 THEN Ok(p, acc)
    ELSE LET e == read_exact(buf, p, shape[2]) IN
         IF e.ok
         THEN PrimElementsLoop_TypeCheckedFirst(buf, e.pos, n - 1, typ,
                  Append(acc, [variant |-> shape[1], v |-> FromBe(e.val)]))
         ELSE e

\* for _ in 0..number_of_elements { match typ { ... _ => bail!(..) } }
RECURSIVE PrimElementsLoop(_, _, _, _, _)
PrimElementsLoop(buf, p, n, typ, acc) ==
    IF n = 0 THEN Ok(p, acc)
    ELSE LET shape == PrimArrayElementShape(typ) IN
         IF shape = <<>> THEN Err("BadArrayType", p)
         ELSE LET e == read_exact(buf, p, shape[2]) IN
              IF e.ok
              THEN PrimElementsLoop(buf, e.pos, n - 1, typ,
                       Append(acc, [variant |-> shape[1], v |-> FromBe(e.val)]))
              ELSE e

prim_array_dump(buf, p) ==
    LET h == ReadAll(buf, p, <<8, 4, 4, 1>>, <<>>) IN
    IF ~h.ok THEN h
    ELSE LET typ == h.val[4][1]
             e == PrimElementsLoop(buf, h.pos, U32(h.val[3]), typ, <<>>)
         IN  IF ~e.ok THEN e
             ELSE Ok(e.pos,
                     [variant |-> "PrimArrayDump",
                      object_id |-> U64(h.val[1]),
                      stack_trace_serial_number |-> U32(h.val[2]),
                      typ |-> typ,
                      elements |-> e.val])

thread_obj(buf, p) ==
    LET h == ReadAll(buf, p, <<8, 4, 4>>, <<>>) IN
    IF ~h.ok THEN h
    ELSE Ok(h.pos, [variant |-> "ThreadObj", object_id |-> U64(h.val[1]),
                    sequence_number |-> U32(h.val[2]),
                    stack_trace_sequence_number |-> U32(h.val[3])])

java_frame(buf, p) ==
    LET h == ReadAll(buf, p, <<8, 4, 4>>, <<>>) IN
    IF ~h.ok THEN h
    ELSE Ok(h.pos, [variant |-> "JavaFrame", object_id |-> U64(h.val[1]),
                    thread_serial_number |-> U32(h.val[2]),
                    frame_number |-> U32(h.val[3])])

jni_local(buf, p) ==
    LET h == ReadAll(buf, p, <<8, 4, 4>>, <<>>) IN
    IF ~h.ok THEN h
    ELSE Ok(h.pos, [variant |-> "JniLocal", object_id |-> U64(h.val[1]),
                    thread_serial_number |-> U32(h.val[2]),
                    frame_number |-> U32(h.val[3])])

jni_global(buf, p) ==
    LET h == ReadAll(buf, p, <<8, 8>>, <<>>) IN
    IF ~h.ok THEN h
    ELSE Ok(h.pos, [variant |-> "JniGlobal", object_id |-> U64(h.val[1]),
                    global_ref_id |-> U64(h.val[2])])

sticky_class(buf, p) ==
    LET h == read_u64(buf, p) IN
    IF ~h.ok THEN h
    ELSE Ok(h.pos, [variant |-> "StickyClass", object_id |-> h.val])

\* SubRecord::new with a 0x2C arm that yields the HeapDumpEnd sentinel
SubRecordNew_YieldsHeapDumpEnd(buf, p) ==
    LET t == read_u8(buf, p) IN
    IF ~t.ok THEN t
    ELSE LET sub_record_type == t.val IN
         IF sub_record_type = 1 THEN jni_global(buf, t.pos)
         ELSE IF sub_record_type = 2 THEN jni_local(buf, t.pos)
         ELSE IF sub_record_type = 3 THEN java_frame(buf, t.pos)
         ELSE IF sub_record_type = 5 THEN sticky_class(buf, t.pos)
         ELSE IF sub_record_type = 8 THEN thread_obj(buf, t.pos)
         ELSE IF sub_record_type = 32 THEN class_dump(buf, t.pos)
         ELSE IF sub_record_type = 33 THEN instance_dump(buf, t.pos)
         ELSE IF sub_record_type = 34 THEN obj_array_dump(buf, t.pos)
         ELSE IF sub_record_type = 35 THEN prim_array_dump(buf, t.pos)
         ELSE IF sub_record_type = 44 THEN Ok(t.pos, [variant |-> "HeapDumpEnd"])
         ELSE Err("UnknownSubTag", t.pos)

\* SubRecord::new
SubRecordNew(buf, p) ==
    LET t == read_u8(buf, p) IN
    IF ~t.ok THEN t
    ELSE LET sub_record_type == t.val IN
         IF sub_record_type = 1 THEN jni_global(buf, t.pos)
         ELSE IF sub_record_type = 2 THEN jni_local(buf, t.pos)
         ELSE IF sub_record_type = 3 THEN java_frame(buf, t.pos)
         ELSE IF sub_record_type = 5 THEN sticky_class(buf, t.pos)
         ELSE IF sub_record_type = 8 THEN thread_obj(buf, t.pos)
         ELSE IF sub_record_type = 32 THEN class_dump(buf, t.pos)
         ELSE IF sub_record_type = 33 THEN instance_dump(buf, t.pos)
         ELSE IF sub_record_type = 34 THEN obj_array_dump(buf, t.pos)
         ELSE IF sub_record_type = 35 THEN prim_array_dump(buf, t.pos)
         ELSE Err("UnknownSubTag", t.pos)

\* matches!(sub_record, SubRecord::HeapDumpEnd)
IsSubHeapDumpEnd(sub_record) == sub_record.variant = "HeapDumpEnd"

(***************************************************************************)
(* parser/mod.rs: Record                                                   *)
(***************************************************************************)
\* Record::utf8.  bytes_remaining - 8 on usize: with bytes_remaining < 8 the
\* subtraction overflows, which panics where overflow checks are on and wraps
\* to 2^64 - 8 + bytes_remaining where they are off, and then vec![0; size]
\* panics on the capacity.  overflow_checks is the build's setting.
utf8(buf, p, m, remaining, overflow_checks) ==
    LET n == read_u64(buf, p) IN
    IF ~n.ok THEN n
    ELSE IF remaining < 8
         THEN Err(IF overflow_checks THEN "panic: subtract with overflow"
                  ELSE "panic: capacity overflow", n.pos)
         ELSE LET c == read_utf8(buf, n.pos, remaining - 8) IN
              IF ~c.ok THEN c
              ELSE Ok(c.pos, [type |-> "Utf8", micros |-> m, name_id |-> n.val,
                              content |-> c.val])

load_class(buf, p, m) ==
    LET h == ReadAll(buf, p, <<4, 8, 4, 8>>, <<>>) IN
    IF ~h.ok THEN h
    ELSE Ok(h.pos, [type |-> "LoadClass", micros |-> m,
                    class_serial_number |-> U32(h.val[1]),
                    class_object_id |-> U64(h.val[2]),
                    stack_trace_serial_number |-> U32(h.val[3]),
                    class_name_id |-> U64(h.val[4])])

\* for _ in 0..number_of_frames { stack_frame_ids.push(read_u64(r)?.into()) }
RECURSIVE StackFrameIdsLoop(_, _, _, _)
StackFrameIdsLoop(buf, p, n, acc) ==
    IF n = 0 THEN Ok(p, acc)
    ELSE LET e == read_u64(buf, p) IN
         IF e.ok THEN StackFrameIdsLoop(buf, e.pos, n - 1, Append(acc, e.val)) ELSE e

trace(buf, p, m) ==
    LET h == ReadAll(buf, p, <<4, 4, 4>>, <<>>) IN
    IF ~h.ok THEN h
    ELSE LET number_of_frames == U32(h.val[3])
             f == StackFrameIdsLoop(buf, h.pos, number_of_frames, <<>>)
         IN  IF ~f.ok THEN f
             ELSE Ok(f.pos, [type |-> "Trace", micros |-> m,
                             stack_trace_serial_number |-> U32(h.val[1]),
                             thread_serial_number |-> U32(h.val[2]),
                             stack_frame_ids |-> f.val])

frame(buf, p, m) ==
    LET h == ReadAll(buf, p, <<8, 8, 8, 8, 4, 4>>, <<>>) IN
    IF ~h.ok THEN h
    ELSE Ok(h.pos, [type |-> "Frame", micros |-> m,
                    stack_frame_id |-> U64(h.val[1]),
                    method_name_id |-> U64(h.val[2]),
                    method_signature_id |-> U64(h.val[3]),
                    source_file_name_id |-> U64(h.val[4]),
                    class_serial_number |-> U32(h.val[5]),
                    line_number |-> I32(h.val[6])])

\* Record::parse, lines 140-142: tag, micros, bytes_remaining.
RecordPrefix(buf, p) ==
    LET h == ReadAll(buf, p, <<1, 4, 4>>, <<>>) IN
    IF ~h.ok THEN h
    ELSE Ok(h.pos, [tag |-> h.val[1][1], micros |-> U32(h.val[2]),
                    bytes_remaining |-> U32(h.val[3])])

SegmentTag == 28

\* Record::parse, the match on the tag, for every tag but 0x1c (heap_dump_segment
\* is the loop of SubRecordStep).
RecordBody(buf, p, h, overflow_checks) ==
    IF h.tag = 1 THEN utf8(buf, p, h.micros, h.bytes_remaining, overflow_checks)
    ELSE IF h.tag = 2 THEN load_class(buf, p, h.micros)
    ELSE IF h.tag = 4 THEN frame(buf, p, h.micros)
    ELSE IF h.tag = 5 THEN trace(buf, p, h.micros)
    ELSE IF h.tag = 44 THEN Ok(p, [type |-> "HeapDumpEnd", micros |-> h.micros])
    ELSE Err("BadTag", p)

\* the pattern of line 62 written for the wrong variant as well
IsHeapDumpEnd_AlsoTrace(record) == record.type \in {"HeapDumpEnd", "Trace"}

\* matches!(record, Record::HeapDumpEnd { .. })
IsHeapDumpEnd(record) == record.type = "HeapDumpEnd"

\* Version::new: "JAVA PROFILE 1.0.2"
SupportedBanner == <<74, 65, 86, 65, 32, 80, 82, 79, 70, 73, 76, 69, 32, 49, 46, 48, 46, 50>>
VersionNew(version_str) == version_str = SupportedBanner

\* DateTime::from_timestamp_millis(ts as i64) is Some: chrono's range ends near
\* +-8.2e15 ms, inside the digit 0x1D (0xE2 for negatives) of the second byte;
\* the inputs drawn here stay clear of that digit.
TimestampOk(bs) == (bs[1] = 0 /\ bs[2] < 29) \/ (bs[1] = 255 /\ bs[2] > 226)

(***************************************************************************)
(* The inputs: files written record by record.                             *)
(* An item is one top-level record as written:                             *)
(*   bytes     its bytes                                                   *)
(*   rec       the record it stands for                                    *)
(*   wf        whether bytes is that record's well-formed encoding         *)
(*   segment   whether it is a heap-dump segment                           *)
(*   declared  the bytes_remaining it declares                             *)
(***************************************************************************)
E16(n) == <<(n \div 256) % 256, n % 256>>
E32(n) == <<(n \div 16777216) % 256, (n \div 65536) % 256, (n \div 256) % 256, n % 256>>
E64(n) == <<0, 0, 0, 0>> \o E32(n)

RECURSIVE Concat(_)
Concat(ss) == IF ss = <<>> THEN <<>> ELSE Head(ss) \o Concat(Tail(ss))

NoRecord == [type |-> "none"]

WStickyClass(id) ==
    [bytes |-> <<5>> \o E64(id),
     val |-> [variant |-> "StickyClass", object_id |-> E64(id)]]
WJniGlobal(id, ref) ==
    [bytes |-> <<1>> \o E64(id) \o E64(ref),
     val |-> [variant |-> "JniGlobal", object_id |-> E64(id), global_ref_id |-> E64(ref)]]
WJniLocal(id, t, f) ==
    [bytes |-> <<2>> \o E64(id) \o E32(t) \o E32(f),
     val |-> [variant |-> "JniLocal", object_id |-> E64(id),
              thread_serial_number |-> t, frame_number |-> f]]
WJavaFrame(id, t, f) ==
    [bytes |-> <<3>> \o E64(id) \o E32(t) \o E32(f),
     val |-> [variant |-> "JavaFrame", object_id |-> E64(id),
              thread_serial_number |-> t, frame_number |-> f]]
WThreadObj(id, n, t) ==
    [bytes |-> <<8>> \o E64(id) \o E32(n) \o E32(t),
     val |-> [variant |-> "ThreadObj", object_id |-> E64(id),
              sequence_number |-> n, stack_trace_sequence_number |-> t]]
WInstanceDump(id, class, raw) ==
    [bytes |-> <<33>> \o E64(id) \o E32(1) \o E64(class) \o E32(Len(raw)) \o raw,
     val |-> [variant |-> "InstanceDump", object_id |-> E64(id),
              stack_trace_serial_number |-> 1, class_object_id |-> E64(class),
              number_of_bytes |-> Len(raw), raw_field_bytes |-> raw]]
WObjArrayDump(id, class, e1, e2) ==
    [bytes |-> <<34>> \o E64(id) \o E32(1) \o E32(2) \o E64(class) \o E64(e1) \o E64(e2),
     val |-> [variant |-> "ObjArrayDump", object_id |-> E64(id),
              stack_trace_serial_number |-> 1, array_class_id |-> E64(class),
              elements |-> <<E64(e1), E64(e2)>>]]
\* an array of two shorts (type byte 9)
WShortArrayDump(id, e1, e2) ==
    [bytes |-> <<35>> \o E64(id) \o E32(1) \o E32(2) \o <<9>> \o E16(e1) \o E16(e2),
     val |-> [variant |-> "PrimArrayDump", object_id |-> E64(id),
              stack_trace_serial_number |-> 1, typ |-> 9,
              elements |-> <<[variant |-> "Short", v |-> e1], [variant |-> "Short", v |-> e2]>>]]
\* a class with the static fields  10: Int(i), 11: NormalObject(o)  and the
\* instance field descriptor  12: typ 8
WClassDump(id, super, i, o) ==
    [bytes |-> <<32>> \o E64(id) \o E32(1) \o E64(super) \o E64(0) \o E64(0) \o E64(0)
               \o E64(0) \o E64(0) \o E32(16) \o E16(0)
               \o E16(2) \o E64(10) \o <<10>> \o E32(i) \o E64(11) \o <<2>> \o E64(o)
               \o E16(1) \o E64(12) \o <<8>>,
     val |-> [variant |-> "ClassDump", class_object_id |-> E64(id),
              stack_trace_serial_number |-> 1, super_class_object_id |-> E64(super),
              class_loader_object_id |-> E64(0), signers_object_id |-> E64(0),
              protection_domain_object_id |-> E64(0), reserved1 |-> E64(0),
              reserved2 |-> E64(0), instance_size |-> 16, constant_pool_size |-> 0,
              number_of_static_fields |-> 2,
              static_fields |-> <<[name_id |-> E64(10), value |-> [variant |-> "Int", v |-> i]],
                                  [name_id |-> E64(11),
                                   value |-> [variant |-> "NormalObject", v |-> E64(o)]]>>,
              number_of_instance_fields |-> 1,
              instance_field_descriptors |-> <<[name_id |-> E64(12), typ |-> 8]>>]]
\* a class whose only static field has the type byte typ, no Field::new type
WBadFieldClassDump(id, typ) ==
    [bytes |-> <<32>> \o E64(id) \o E32(1) \o E64(0) \o E64(0) \o E64(0) \o E64(0)
               \o E64(0) \o E64(0) \o E32(16) \o E16(0)
               \o E16(1) \o E64(10) \o <<typ>> \o E32(5) \o E16(0),
     val |-> [variant |-> "none"]]
\* a byte no sub-record starts with
WUnknownSub(tag) == [bytes |-> <<tag>>, val |-> [variant |-> "none"]]

Prefix(tag, m, declared) == <<tag>> \o E32(m) \o E32(declared)

WUtf8(m, id, content) ==
    [bytes |-> Prefix(1, m, 8 + Len(content)) \o E64(id) \o content,
     rec |-> [type |-> "Utf8", micros |-> m, name_id |-> E64(id), content |-> content],
     wf |-> TRUE, segment |-> FALSE, declared |-> 8 + Len(content)]
\* a Utf8 record whose content is no UTF-8
WBadUtf8(m, id, content) ==
    [bytes |-> Prefix(1, m, 8 + Len(content)) \o E64(id) \o content, rec |-> NoRecord,
     wf |-> FALSE, segment |-> FALSE, declared |-> 8 + Len(content)]
\* a Utf8 record declaring fewer bytes than its name_id takes
WShortUtf8(m, declared, id) ==
    [bytes |-> Prefix(1, m, declared) \o E64(id), rec |-> NoRecord,
     wf |-> FALSE, segment |-> FALSE, declared |-> declared]
WLoadClass(m, serial, class, name) ==
    [bytes |-> Prefix(2, m, 24) \o E32(serial) \o E64(class) \o E32(1) \o E64(name),
     rec |-> [type |-> "LoadClass", micros |-> m, class_serial_number |-> serial,
              class_object_id |-> E64(class), stack_trace_serial_number |-> 1,
              class_name_id |-> E64(name)],
     wf |-> TRUE, segment |-> FALSE, declared |-> 24]
WFrame(m, id, name, sig, file, serial) ==
    [bytes |-> Prefix(4, m, 40) \o E64(id) \o E64(name) \o E64(sig) \o E64(file)
               \o E32(serial) \o <<255, 255, 255, 255>>,
     rec |-> [type |-> "Frame", micros |-> m, stack_frame_id |-> E64(id),
              method_name_id |-> E64(name), method_signature_id |-> E64(sig),
              source_file_name_id |-> E64(file), class_serial_number |-> serial,
              line_number |-> -1],
     wf |-> TRUE, segment |-> FALSE, declared |-> 40]
WTrace(m, serial, thread, f1, f2) ==
    [bytes |-> Prefix(5, m, 28) \o E32(serial) \o E32(thread) \o E32(2) \o E64(f1) \o E64(f2),
     rec |-> [type |-> "Trace", micros |-> m, stack_trace_serial_number |-> serial,
              thread_serial_number |-> thread, stack_frame_ids |-> <<E64(f1), E64(f2)>>],
     wf |-> TRUE, segment |-> FALSE, declared |-> 28]
WHeapDumpEnd(m) ==
    [bytes |-> Prefix(44, m, 0),
     rec |-> [type |-> "HeapDumpEnd", micros |-> m],
     wf |-> TRUE, segment |-> FALSE, declared |-> 0]
\* a segment declaring `declared` bytes, followed by the sub-records subs
WSegment(m, declared, subs) ==
    LET payload == Concat([i \in 1..Len(subs) |-> subs[i].bytes]) IN
    [bytes |-> Prefix(SegmentTag, m, declared) \o payload,
     rec |-> [type |-> "HeapDumpSegment", micros |-> m,
              sub_records |-> [i \in 1..Len(subs) |-> subs[i].val]],
     wf |-> declared = Len(payload)
            /\ \A i \in 1..Len(subs) : subs[i].val.variant # "none",
     segment |-> TRUE, declared |-> declared]
\* a record with a tag Record::parse does not know
WBadTag(tag, m) ==
    [bytes |-> Prefix(tag, m, 0), rec |-> NoRecord,
     wf |-> FALSE, segment |-> FALSE, declared |-> 0]

SubsA == <<WInstanceDump(80, 100, <<1, 2>>), WStickyClass(100), WJniGlobal(80, 3),
           WThreadObj(81, 1, 2)>>
SubsB == <<WClassDump(100, 101, 5, 80), WObjArrayDump(82, 102, 80, 81),
           WShortArrayDump(83, 300, 4), WJavaFrame(80, 1, 0), WJniLocal(81, 1, 2)>>
SubsLen(subs) == Len(Concat([i \in 1..Len(subs) |-> subs[i].bytes]))

ItemAs(k) ==
    CASE k = "End" -> WHeapDumpEnd(0)
      [] k = "Utf8" -> WUtf8(1, 7, <<104, 105>>)
      [] k = "LoadClass" -> WLoadClass(2, 1, 100, 7)
      [] k = "Frame" -> WFrame(3, 9, 7, 7, 7, 1)
      [] k = "Trace" -> WTrace(4, 1, 1, 9, 9)
      [] k = "SegA" -> WSegment(5, SubsLen(SubsA), SubsA)
      [] k = "SegB" -> WSegment(6, SubsLen(SubsB), SubsB)
      [] k = "SegEmpty" -> WSegment(7, 0, <<>>)
      [] k = "SegShort" -> WSegment(8, 5, <<WStickyClass(100), WStickyClass(101)>>)
      [] k = "SegLong" -> WSegment(9, 18, <<WStickyClass(100)>>)
      [] k = "SegBadSub" -> WSegment(10, 10, <<WStickyClass(100), WUnknownSub(44)>>)
      [] k = "BadTag" -> WBadTag(127, 0)
      [] k = "Utf8Bad" -> WBadUtf8(11, 7, <<104, 255>>)
      [] k = "Utf8Short" -> WShortUtf8(12, 3, 7)
      [] k = "SegBadField" ->
            WSegment(13, 9 + 71, <<WStickyClass(100), WBadFieldClassDump(100, 3)>>)

Menu == {"End", "Utf8", "LoadClass", "Frame", "Trace", "SegA", "SegB", "SegEmpty",
         "SegShort", "SegLong", "SegBadSub", "BadTag"}
\* the records written for the files that end in a decode error
ErrMenu == {"End", "Utf8", "SegA", "Utf8Bad", "Utf8Short", "SegBadField", "SegBadSub",
            "BadTag"}
Items == [k \in Menu \cup ErrMenu |-> ItemAs(k)]
Item(k) == Items[k]

\* the 31 header bytes: banner, a zero byte, the identifier size, the timestamp
HeaderBytes(h) ==
    CASE h = "ok" -> SupportedBanner \o <<0>> \o E32(8) \o E64(1000)
      [] h = "bad_banner" -> SubSeq(SupportedBanner, 1, 17) \o <<49>> \o <<0>> \o E32(8) \o E64(1000)
      [] h = "id4" -> SupportedBanner \o <<0>> \o E32(4) \o E64(1000)
      [] h = "id16" -> SupportedBanner \o <<0>> \o E32(16) \o E64(1000)
      [] h = "bad_ts" -> SupportedBanner \o <<0>> \o E32(8) \o <<127, 0, 0, 0, 0, 0, 0, 0>>
Headers == {"ok", "bad_banner", "id4", "id16", "bad_ts"}

\* the most records a file is written from
MaxItems == 3

\* the byte appended to a decoded file before it is decoded again
TrailingBytes == {0, 44}

Encode(s) == HeaderBytes(s.header) \o Concat([i \in 1..Len(s.items) |-> Item(s.items[i]).bytes])

(***************************************************************************)
(* ParsedHeap::parse as a state machine                                    *)
(***************************************************************************)
AnalyzeIdle ==
    /\ parsed_heap = <<>>
    /\ apc = "idle"
    /\ aerr = ""
    /\ strings = <<>>
    /\ classes = <<>>
    /\ frames = <<>>
    /\ instances = <<>>

\* line 41-42: the cursor over the file's contents
ParseStart ==
    /\ pos = 0
    /\ pc = "header"
    /\ err = ""
    /\ version = <<>>
    /\ timestamp = <<>>
    /\ records = <<>>
    /\ micros = 0
    /\ bytes_remaining = 0
    /\ start_position = 0
    /\ sub_records = <<>>

Init ==
    /\ src \in [header : Headers,
                items : UNION {[1..n -> Menu] : n \in 0..MaxItems}]
    /\ input = Encode(src)
    /\ ParseStart
    /\ redecoded = FALSE
    /\ first_records = <<>>
    /\ AnalyzeIdle

\* files with a good header whose records are drawn from ErrMenu
InitErr ==
    /\ src \in [header : {"ok"},
                items : UNION {[1..n -> ErrMenu] : n \in 0..MaxItems}]
    /\ input = Encode(src)
    /\ ParseStart
    /\ redecoded = FALSE
    /\ first_records = <<>>
    /\ AnalyzeIdle

Panics == {"panic: subtract with overflow", "panic: capacity overflow"}

\* `?` on an Err with the error kept and the loop going on
Fail_KeepsDecoding(r) ==
    /\ pc' = pc
    /\ err' = r.err
    /\ pos' = r.pos

\* `?` on an Err, bail!, or a panic: parse is left with the error.
Fail(r) ==
    /\ pc' = (IF r.err \in Panics THEN "panic" ELSE "error")
    /\ err' = r.err
    /\ pos' = r.pos

\* the header read with the identifier size tested after the timestamp is read
ReadHeaderResult_SizeCheckedLast(buf, p) ==
    LET v == read_utf8(buf, p, 18) IN
    IF ~v.ok THEN v
    ELSE LET z == read_u8(buf, v.pos) IN
         IF ~z.ok THEN z
         ELSE LET identifier_size == read_u32(buf, z.pos) IN
              IF ~identifier_size.ok THEN identifier_size
              ELSE LET ts == read_u64(buf, identifier_size.pos) IN
                   IF ~ts.ok THEN ts
                   ELSE IF identifier_size.val # 8
                        THEN Err("UnsupportedIdentifierSize", ts.pos)
                        ELSE IF ~TimestampOk(ts.val) THEN Err("InvalidTimestamp", ts.pos)
                             ELSE Ok(ts.pos, [version |-> v.val, timestamp |-> ts.val])

\* lines 44-56: the banner, the skipped byte, the identifier size, the timestamp
ReadHeaderResult(buf, p) ==
    LET v == read_utf8(buf, p, 18) IN
    IF ~v.ok THEN v
    ELSE LET z == read_u8(buf, v.pos) IN
         IF ~z.ok THEN z
         ELSE LET identifier_size == read_u32(buf, z.pos) IN
              IF ~identifier_size.ok THEN identifier_size
              ELSE IF identifier_size.val # 8
                   THEN Err("UnsupportedIdentifierSize", identifier_size.pos)
                   ELSE LET ts == read_u64(buf, identifier_size.pos) IN
                        IF ~ts.ok THEN ts
                        ELSE IF ~TimestampOk(ts.val) THEN Err("InvalidTimestamp", ts.pos)
                             ELSE Ok(ts.pos, [version |-> v.val, timestamp |-> ts.val])

ReadHeader ==
    /\ pc = "header"
    /\ \E h \in {ReadHeaderResult(input, pos)} :
       IF h.ok
       THEN /\ version' = h.val.version
            /\ timestamp' = h.val.timestamp
            /\ pos' = h.pos
            /\ pc' = "records"
            /\ UNCHANGED err
       ELSE /\ Fail(h)
            /\ UNCHANGED <<version, timestamp>>
    /\ UNCHANGED <<src, input, records, micros, bytes_remaining, start_position,
                   sub_records, redecoded, first_records, analyze_vars>>

\* lines 59-68, one iteration of the loop for a record that is no segment:
\* Record::parse, push, break on HeapDumpEnd.  For tag 0x1c Record::parse
\* enters heap_dump_segment (lines 217-218).
ParseRecord ==
    /\ pc = "records"
    /\ \E h \in {RecordPrefix(input, pos)} :
       IF ~h.ok
       THEN /\ Fail(h)
            /\ UNCHANGED <<records, micros, bytes_remaining, start_position, sub_records>>
       ELSE IF h.val.tag = SegmentTag
       THEN /\ pc' = "segment"
            /\ micros' = h.val.micros
            /\ bytes_remaining' = h.val.bytes_remaining
            /\ start_position' = h.pos
            /\ sub_records' = <<>>
            /\ pos' = h.pos
            /\ UNCHANGED <<records, err>>
       ELSE \E overflow_checks \in BOOLEAN :
            \E r \in {RecordBody(input, h.pos, h.val, overflow_checks)} :
            IF ~r.ok
            THEN /\ Fail(r)
                 /\ UNCHANGED <<records, micros, bytes_remaining, start_position, sub_records>>
            ELSE /\ records' = Append(records, r.val)
                 /\ pos' = r.pos
                 /\ pc' = (IF IsHeapDumpEnd(r.val) THEN "version" ELSE "records")
                 /\ UNCHANGED <<err, micros, bytes_remaining, start_position, sub_records>>
    /\ UNCHANGED <<src, input, version, timestamp, redecoded, first_records, analyze_vars>>

\* heap_dump_segment, lines 219-235: one iteration of the loop; on break the
\* segment is returned to the loop of parse, which pushes it (line 67).
SubRecordStep ==
    /\ pc = "segment"
    /\ \E s \in {SubRecordNew(input, pos)} :
       IF ~s.ok
       THEN /\ Fail(s)
            /\ UNCHANGED <<records, sub_records>>
       ELSE LET pushed == Append(sub_records, s.val) IN
            /\ pos' = s.pos
            /\ UNCHANGED err
            /\ IF IsSubHeapDumpEnd(s.val) \/ s.pos - start_position = bytes_remaining
               THEN /\ records' = Append(records, [type |-> "HeapDumpSegment",
                                                   micros |-> micros,
                                                   sub_records |-> pushed])
                    /\ sub_records' = <<>>
                    /\ pc' = "records"
               ELSE /\ sub_records' = pushed
                    /\ pc' = "segment"
                    /\ UNCHANGED records
    /\ UNCHANGED <<src, input, version, timestamp, micros, bytes_remaining, start_position,
                   redecoded, first_records, analyze_vars>>

\* Return refusing a file with bytes left after the HeapDumpEnd record
Return_RejectsTrailing ==
    /\ pc = "version"
    /\ IF VersionNew(version) /\ pos = Len(input)
       THEN /\ pc' = "done"
            /\ UNCHANGED err
       ELSE /\ pc' = "error"
            /\ err' = (IF VersionNew(version) THEN "Io" ELSE "UnsupportedVersion")
    /\ UNCHANGED <<src, input, pos, version, timestamp, records, micros, bytes_remaining,
                   start_position, sub_records, redecoded, first_records, analyze_vars>>

\* lines 70-74: Version::new(&version)?, then Ok(Self { .. })
Return ==
    /\ pc = "version"
    /\ IF VersionNew(version)
       THEN /\ pc' = "done"
            /\ UNCHANGED err
       ELSE /\ pc' = "error"
            /\ err' = "UnsupportedVersion"
    /\ UNCHANGED <<src, input, pos, version, timestamp, records, micros, bytes_remaining,
                   start_position, sub_records, redecoded, first_records, analyze_vars>>

\* The file gets one more byte at its end and parse is called on it again
\* (line 41 reads the file anew on every call).
AppendTrailingByte ==
    /\ pc = "done"
    /\ ~redecoded
    /\ \E b \in TrailingBytes : input' = Append(input, b)
    /\ redecoded' = TRUE
    /\ first_records' = records
    /\ pos' = 0
    /\ pc' = "header"
    /\ err' = ""
    /\ version' = <<>>
    /\ timestamp' = <<>>
    /\ records' = <<>>
    /\ micros' = 0
    /\ bytes_remaining' = 0
    /\ start_position' = 0
    /\ sub_records' = <<>>
    /\ UNCHANGED <<src, analyze_vars>>

Next == ReadHeader \/ ParseRecord \/ SubRecordStep \/ Return \/ AppendTrailingByte

Spec == Init /\ [][Next]_vars

\* parse on the files of InitErr
SpecErr == InitErr /\ [][Next]_vars

(***************************************************************************)
(* Properties of the decoder                                               *)
(***************************************************************************)
Terminal == {"done", "error", "panic"}

\* the offset right after the k-th written record
Offset(k) == Len(Encode([header |-> src.header, items |-> SubSeq(src.items, 1, k)]))

\* The decoder reaches the k-th written record at its first byte: the header
\* decodes, and the records before it are well-formed, are not the end record
\* and are no segment of zero bytes.
Aligned(k) ==
    /\ src.header \in {"ok", "bad_banner"}
    /\ \A i \in 1..(k - 1) :
          LET it == Item(src.items[i]) IN
          it.wf /\ src.items[i] # "End" /\ ~(it.segment /\ it.declared = 0)

EndsWithHeapDumpEnd(rs) ==
    /\ rs # <<>>
    /\ rs[Len(rs)].type = "HeapDumpEnd"
    /\ \A i \in 1..(Len(rs) - 1) : rs[i].type # "HeapDumpEnd"

\* C1: every successful parse returns a record list whose last element is a
\* HeapDumpEnd record and that holds no HeapDumpEnd before it; and when the
\* input is used up where the next record or sub-record should start (no
\* top-level HeapDumpEnd read yet), parse fails with the I/O error.
C1_EndsWithHeapDumpEnd ==
    [][/\ (pc' = "done" => EndsWithHeapDumpEnd(records'))
       /\ ((pc \in {"records", "segment"} /\ pos = Len(input))
              => (pc' = "error" /\ err' = "Io"))]_vars

C1_Witness ==
    /\ pc = "done"
    /\ ~redecoded
    /\ Len(records) = 3
    /\ records[2].type = "HeapDumpSegment"

\* C2 as stated: decoding the file again with one byte appended after a
\* successful decoding fails, with the I/O error or the bad-tag error.
C2_TrailingByteFails ==
    (redecoded /\ pc \in Terminal) => (pc = "error" /\ err \in {"Io", "BadTag"})

\* C2 amended: decoding the file again with one byte appended after a
\* successful decoding succeeds and returns the same record list; the byte
\* after the HeapDumpEnd record is never read.
C2_TrailingByteIgnored ==
    redecoded =>
        /\ pc \notin {"error", "panic"}
        /\ pos < Len(input)
        /\ (pc = "done" => records = first_records)

C2_Witness ==
    /\ redecoded
    /\ pc = "done"
    /\ Len(records) >= 2
    /\ pos = Len(input) - 1

\* C3: while decoding a segment, once the bytes consumed since the segment's
\* start exceed bytes_remaining, decoding has failed: the decoder is never
\* about to read a further sub-record of an overrun segment.
C3_SegmentOverrunFails ==
    ~(pc = "segment" /\ sub_records # <<>> /\ pos - start_position > bytes_remaining)

C5_EmptySegment ==
    [][(pc = "segment" /\ bytes_remaining = 0 /\ sub_records = <<>>)
          => /\ pc' = "records"
             /\ pos' = pos
             /\ records' = Append(records, [type |-> "HeapDumpSegment", micros |-> micros,
                                            sub_records |-> <<>>])]_vars

\* C13: an input whose first 18 bytes are not "JAVA PROFILE 1.0.2" fails with
\* the unsupported-version error at the banner, the first decoding step,
\* whatever follows it: nothing after the banner is read, no record decoded.
C13_BadBannerFailsFirst ==
    (src.header = "bad_banner" /\ pc # "header") =>
        /\ pc = "error"
        /\ err = "UnsupportedVersion"
        /\ pos = 18
        /\ records = <<>>

\* C14: an input with the supported banner and an identifier size other than
\* 8 fails with the unsupported-identifier-size error right after the size is
\* read (offset 23): the timestamp is not read and no record is decoded.
C14_IdentifierSizeFailsEarly ==
    (src.header \in {"id4", "id16"} /\ pc # "header") =>
        /\ pc = "error"
        /\ err = "UnsupportedIdentifierSize"
        /\ pos = 23
        /\ timestamp = <<>>
        /\ records = <<>>

\* identifier size 4 with records written after the header
C14_Witness ==
    /\ src.header = "id4"
    /\ Len(src.items) >= 2
    /\ pc = "error"
    /\ err = "UnsupportedIdentifierSize"
    /\ pos = 23 /\ pos < Len(input)


\* the errors parse returns
DecodeErrors == {"Io", "BadTag", "UnknownSubTag", "BadFieldType", "BadArrayType", "BadUtf8",
                 "UnsupportedIdentifierSize", "InvalidTimestamp", "UnsupportedVersion"}

\* C17: a decode error is fatal and absorbing.  The step that fails decodes
\* nothing (no record, no sub-record is added), a failure always ends parse
\* (an error is never noted while decoding goes on), and from the error no
\* step is taken: no byte is consumed, no record decoded, and the record list
\* is never returned.
C17_ErrorsAreFatal ==
    [][/\ pc \in {"error", "panic"} => FALSE
       /\ err' # "" => pc' \in {"error", "panic"}
       /\ pc' = "error" =>
             /\ err' \in DecodeErrors
             /\ records' = records
             /\ sub_records' = sub_records]_vars

\* an invalid static-field type in the second record's ClassDump: one record
\* and one sub-record decoded before it, the end record after it never read
C17_Witness ==
    /\ src.items = <<"Utf8", "SegBadField", "End">>
    /\ pc = "error"
    /\ err = "BadFieldType"
    /\ Len(records) = 1
    /\ Len(sub_records) = 1
    /\ pos < Len(input) - 9

\* C18: parse terminates on every finite input.  Every iteration of the record
\* loop that does not fail consumes at least 9 bytes, every iteration of the
\* sub-record loop that does not fail consumes at least 1 byte, no read goes
\* past the end of the input, and a step that ends the decoding ends it in
\* success or in an error: the decoder always reaches success or an error.
C18_ParseTerminates ==
    [][/\ (pc = "records" /\ pc' \in {"records", "segment", "version"}) => pos' >= pos + 9
       /\ (pc = "segment" /\ pc' \in {"segment", "records"}) => pos' >= pos + 1
       /\ pos' <= Len(input)
       /\ pc' \in {"header", "records", "segment", "version", "done", "error"}]_vars

\* C19: a Utf8 record whose bytes_remaining is below 8 makes the decoder
\* return an error value: the subtraction bytes_remaining - 8 neither aborts
\* nor wraps around.
C19_ShortUtf8IsError ==
    [][(/\ pc = "records"
        /\ RecordPrefix(input, pos).ok
        /\ RecordPrefix(input, pos).val.tag = 1
        /\ RecordPrefix(input, pos).val.bytes_remaining < 8)
       => (pc' = "error" /\ err' \in DecodeErrors)]_vars


\* the bytes consumed since the segment start exceed bytes_remaining
Overrun == pos - start_position > bytes_remaining

\* C20: heap_dump_segment returns only right after a sub-record that brings
\* the bytes consumed since the segment start to bytes_remaining exactly.  A
\* 0x2C byte in sub-tag position is an unknown-sub-record error and no
\* sub-record is the HeapDumpEnd sentinel; the consumed count only grows, so
\* from an overrun the segment stays overrun until it fails, and the error is
\* final: parse never succeeds.
C20_SegmentEndsByLengthOnly ==
    [][/\ (pc = "segment" /\ pc' = "records") =>
             /\ pos' - start_position = bytes_remaining
             /\ pos' > pos
             /\ Len(records') = Len(records) + 1
             /\ records'[Len(records')].type = "HeapDumpSegment"
             /\ Len(records'[Len(records')].sub_records) = Len(sub_records) + 1
       /\ (pc = "segment" /\ pc' = "segment") =>
             /\ pos' > pos
             /\ start_position' = start_position
             /\ bytes_remaining' = bytes_remaining
       /\ (pc = "segment" /\ pos < Len(input) /\ input[pos + 1] = 44) =>
             (pc' = "error" /\ err' = "UnknownSubTag")
       /\ \A i \in 1..Len(sub_records') : sub_records'[i].variant # "HeapDumpEnd"
       /\ (pc = "segment" /\ Overrun) => (pc' = "error" \/ (pc' = "segment" /\ Overrun'))
       /\ pc = "error" => FALSE]_vars

\* a segment declaring 5 bytes whose first sub-record takes 9: the decoder
\* goes on past the segment and fails on the 0x2C tag of the record after it
C20_Witness ==
    /\ src.header = "ok"
    /\ src.items = <<"SegShort", "End">>
    /\ pc = "error"
    /\ err = "UnknownSubTag"
    /\ Overrun
    /\ Len(sub_records) = 2
    /\ input[pos] = 44

(***************************************************************************)
(* analzyer/mod.rs: AnalyzedHeap::analyze                                  *)
(* A HashMap is a function from the keys it holds.                         *)
(***************************************************************************)
EmptyMap == <<>>

\* an insert that keeps the value of a key the map already holds
Insert_KeepFirst(map, key, value) ==
    [x \in (DOMAIN map) \cup {key} |-> IF x \in DOMAIN map THEN map[x] ELSE value]

\* HashMap::insert: a later insert of the same key replaces the value
Insert(map, key, value) ==
    [x \in (DOMAIN map) \cup {key} |-> IF x = key THEN value ELSE map[x]]

\* HashMap::get(..).cloned().context(..)?
Has(map, key) == key \in DOMAIN map

\* lines 46-58: the first loop, over all records, from index i on
RECURSIVE StringsLoop(_, _, _)
StringsLoop(recs, i, strs) ==
    IF i > Len(recs) THEN strs
    ELSE IF recs[i].type = "Utf8"
         THEN StringsLoop(recs, i + 1, Insert(strs, recs[i].name_id, recs[i].content))
         ELSE StringsLoop(recs, i + 1, strs)

\* ResolveFrame taking the signature from the method name's id
ResolveFrame_SignatureFromName(r, strs) ==
    IF ~Has(strs, r.method_name_id) THEN Err("method name string not found", 0)
    ELSE IF ~Has(strs, r.method_signature_id)
         THEN Err("method signature string not found", 0)
    ELSE IF ~Has(strs, r.source_file_name_id)
         THEN Err("source file name string not found", 0)
    ELSE Ok(0, [id |-> r.stack_frame_id,
                method_name |-> strs[r.method_name_id],
                method_signature |-> strs[r.method_name_id],
                source_file_name |-> strs[r.source_file_name_id],
                class_serial_number |-> r.class_serial_number,
                line_number |-> r.line_number])

\* ResolveFrame with the source file name defaulted to "" when its id is unknown
ResolveFrame_DefaultSourceFile(r, strs) ==
    IF ~Has(strs, r.method_name_id) THEN Err("method name string not found", 0)
    ELSE IF ~Has(strs, r.method_signature_id)
         THEN Err("method signature string not found", 0)
    ELSE Ok(0, [id |-> r.stack_frame_id,
                method_name |-> strs[r.method_name_id],
                method_signature |-> strs[r.method_signature_id],
                source_file_name |-> IF Has(strs, r.source_file_name_id)
                                     THEN strs[r.source_file_name_id] ELSE "",
                class_serial_number |-> r.class_serial_number,
                line_number |-> r.line_number])

\* lines 65-89: Record::Frame => frames.push(Frame { .. }), the three lookups in
\* the order of the struct's fields
ResolveFrame(r, strs) ==
    IF ~Has(strs, r.method_name_id) THEN Err("method name string not found", 0)
    ELSE IF ~Has(strs, r.method_signature_id)
         THEN Err("method signature string not found", 0)
    ELSE IF ~Has(strs, r.source_file_name_id)
         THEN Err("source file name string not found", 0)
    ELSE Ok(0, [id |-> r.stack_frame_id,
                method_name |-> strs[r.method_name_id],
                method_signature |-> strs[r.method_signature_id],
                source_file_name |-> strs[r.source_file_name_id],
                class_serial_number |-> r.class_serial_number,
                line_number |-> r.line_number])

\* lines 90-105: Record::LoadClass => classes.insert(..)
ResolveClass(r, strs) ==
    IF ~Has(strs, r.class_name_id) THEN Err("unknown class name string", 0)
    ELSE Ok(0, [id |-> r.class_object_id, name |-> strs[r.class_name_id]])

\* lines 107-126: for sub_record in sub_records, from index j on, with the
\* class table as it is when the segment is reached
RECURSIVE InstancesLoop(_, _, _, _)
InstancesLoop(subs, j, cls, insts) ==
    IF j > Len(subs) THEN Ok(0, insts)
    ELSE IF subs[j].variant = "InstanceDump"
         THEN IF ~Has(cls, subs[j].class_object_id) THEN Err("class not found", 0)
              ELSE InstancesLoop(subs, j + 1, cls,
                       Insert(insts, subs[j].object_id,
                              [id |-> subs[j].object_id,
                               class |-> cls[subs[j].class_object_id]]))
         ELSE InstancesLoop(subs, j + 1, cls, insts)

\* the second loop putting each resolved frame at the front of frames
RECURSIVE ResolveLoop_PrependsFrames(_, _, _, _, _, _)
ResolveLoop_PrependsFrames(recs, i, strs, cls, frs, insts) ==
    IF i > Len(recs) THEN Ok(0, [classes |-> cls, frames |-> frs, instances |-> insts])
    ELSE LET r == recs[i] IN
         IF r.type = "Frame"
         THEN LET f == ResolveFrame(r, strs) IN
              IF ~f.ok THEN f
              ELSE ResolveLoop_PrependsFrames(recs, i + 1, strs, cls, <<f.val>> \o frs, insts)
         ELSE IF r.type = "LoadClass"
         THEN LET c == ResolveClass(r, strs) IN
              IF ~c.ok THEN c
              ELSE ResolveLoop_PrependsFrames(recs, i + 1, strs,
                       Insert(cls, r.class_object_id, c.val), frs, insts)
         ELSE IF r.type = "HeapDumpSegment"
         THEN LET n == InstancesLoop(r.sub_records, 1, cls, insts) IN
              IF ~n.ok THEN n
              ELSE ResolveLoop_PrependsFrames(recs, i + 1, strs, cls, frs, n.val)
         ELSE ResolveLoop_PrependsFrames(recs, i + 1, strs, cls, frs, insts)

\* lines 63-131: the second loop, over all records, from index i on
RECURSIVE ResolveLoop(_, _, _, _, _, _)
ResolveLoop(recs, i, strs, cls, frs, insts) ==
    IF i > Len(recs) THEN Ok(0, [classes |-> cls, frames |-> frs, instances |-> insts])
    ELSE LET r == recs[i] IN
         IF r.type = "Frame"
         THEN LET f == ResolveFrame(r, strs) IN
              IF ~f.ok THEN f
              ELSE ResolveLoop(recs, i + 1, strs, cls, Append(frs, f.val), insts)
         ELSE IF r.type = "LoadClass"
         THEN LET c == ResolveClass(r, strs) IN
              IF ~c.ok THEN c
              ELSE ResolveLoop(recs, i + 1, strs, Insert(cls, r.class_object_id, c.val),
                               frs, insts)
         ELSE IF r.type = "HeapDumpSegment"
         THEN LET n == InstancesLoop(r.sub_records, 1, cls, insts) IN
              IF ~n.ok THEN n
              ELSE ResolveLoop(recs, i + 1, strs, cls, frs, n.val)
         ELSE ResolveLoop(recs, i + 1, strs, cls, frs, insts)

(***************************************************************************)
(* The record lists analyze is run on: what parse returns, a list ending   *)
(* with its only HeapDumpEnd, every segment holding at least one           *)
(* sub-record.  Ids are small numbers, strings are "a" and "b".            *)
(***************************************************************************)
RUtf8(id, content) == [type |-> "Utf8", micros |-> 0, name_id |-> id, content |-> content]
RLoadClass(class, name) ==
    [type |-> "LoadClass", micros |-> 0, class_serial_number |-> 1,
     class_object_id |-> class, stack_trace_serial_number |-> 0, class_name_id |-> name]
RFrame(id, name, sig, file, line) ==
    [type |-> "Frame", micros |-> 0, stack_frame_id |-> id, method_name_id |-> name,
     method_signature_id |-> sig, source_file_name_id |-> file,
     class_serial_number |-> 1, line_number |-> line]
RSegment(subs) == [type |-> "HeapDumpSegment", micros |-> 0, sub_records |-> subs]
RHeapDumpEnd == [type |-> "HeapDumpEnd", micros |-> 0]
SInstanceDump(id, class) ==
    [variant |-> "InstanceDump", object_id |-> id, stack_trace_serial_number |-> 0,
     class_object_id |-> class, number_of_bytes |-> 0, raw_field_bytes |-> <<>>]
SStickyClass(id) == [variant |-> "StickyClass", object_id |-> id]

RecordMenu ==
    {RUtf8(1, "a"), RUtf8(1, "b"), RUtf8(2, "b"), RUtf8(3, "a"),
     RLoadClass(10, 1), RLoadClass(10, 2),
     RFrame(30, 1, 2, 3, 7), RFrame(31, 3, 2, 1, 8),
     RSegment(<<SStickyClass(10), SInstanceDump(20, 10)>>)}

\* the most records before the HeapDumpEnd record
MaxRecords == 5

ParseIdle ==
    /\ src = [header |-> "ok", items |-> <<>>]
    /\ input = <<>>
    /\ pos = 0
    /\ pc = "idle"
    /\ err = ""
    /\ version = <<>>
    /\ timestamp = <<>>
    /\ records = <<>>
    /\ micros = 0
    /\ bytes_remaining = 0
    /\ start_position = 0
    /\ sub_records = <<>>
    /\ redecoded = FALSE
    /\ first_records = <<>>

InitAnalyze ==
    /\ ParseIdle
    /\ \E n \in 0..MaxRecords : \E rs \in [1..n -> RecordMenu] :
          parsed_heap = Append(rs, RHeapDumpEnd)
    /\ apc = "pass1"
    /\ aerr = ""
    /\ strings = EmptyMap
    /\ classes = EmptyMap
    /\ frames = <<>>
    /\ instances = EmptyMap

\* lines 43-58: the two maps, then the loop over the Utf8 records
Pass1 ==
    /\ apc = "pass1"
    /\ strings' = StringsLoop(parsed_heap, 1, EmptyMap)
    /\ classes' = EmptyMap
    /\ apc' = "pass2"
    /\ UNCHANGED <<parsed_heap, aerr, frames, instances, parse_vars>>

\* lines 60-138: the loop over all records, then Ok(Self { .. }); on an error
\* analyze returns it and the tables are dropped
Pass2 ==
    /\ apc = "pass2"
    /\ LET r == ResolveLoop(parsed_heap, 1, strings, classes, <<>>, EmptyMap) IN
       IF r.ok
       THEN /\ apc' = "done"
            /\ classes' = r.val.classes
            /\ frames' = r.val.frames
            /\ instances' = r.val.instances
            /\ UNCHANGED <<strings, aerr>>
       ELSE /\ apc' = "error"
            /\ aerr' = r.err
            /\ strings' = EmptyMap
            /\ classes' = EmptyMap
            /\ frames' = <<>>
            /\ instances' = EmptyMap
    /\ UNCHANGED <<parsed_heap, parse_vars>>

NextAnalyze == Pass1 \/ Pass2

SpecAnalyze == InitAnalyze /\ [][NextAnalyze]_vars

(***************************************************************************)
(* Properties of the resolver, read off the record list itself             *)
(***************************************************************************)
RecordIndexes == 1..Len(parsed_heap)
IsType(k, t) == parsed_heap[k].type = t

\* the ids the list's Utf8 records define
Utf8Ids == {parsed_heap[k].name_id : k \in {j \in RecordIndexes : IsType(j, "Utf8")}}
\* the class ids the list's LoadClass records define
LoadClassIds ==
    {parsed_heap[k].class_object_id : k \in {j \in RecordIndexes : IsType(j, "LoadClass")}}
\* <<k, j>>: sub-record j of record k is an InstanceDump
InstanceDumps ==
    {kj \in UNION {{<<k, j>> : j \in 1..Len(parsed_heap[k].sub_records)} :
                   k \in {i \in RecordIndexes : IsType(i, "HeapDumpSegment")}} :
        parsed_heap[kj[1]].sub_records[kj[2]].variant = "InstanceDump"}
InstanceAt(kj) == parsed_heap[kj[1]].sub_records[kj[2]]
\* the Frame records in list order
FrameRecords == SelectSeq(parsed_heap, LAMBDA r : r.type = "Frame")
\* the index of the last record of type t whose field `key` is id
Last(t, key, id) ==
    CHOOSE k \in RecordIndexes :
        /\ IsType(k, t) /\ parsed_heap[k][key] = id
        /\ \A j \in RecordIndexes : (IsType(j, t) /\ parsed_heap[j][key] = id) => j <= k

\* C6: an InstanceDump whose class_object_id has a LoadClass record somewhere
\* in the list (its class_name_id defined by a Utf8 record) is resolved,
\* wherever its segment stands: analyze does not fail with "class not found"
\* on a list all of whose instance dumps have such a LoadClass.
C6_InstanceResolvedInAnyOrder ==
    (/\ apc \in {"done", "error"}
     /\ \A kj \in InstanceDumps :
           \E k \in RecordIndexes :
              /\ IsType(k, "LoadClass")
              /\ parsed_heap[k].class_object_id = InstanceAt(kj).class_object_id
              /\ parsed_heap[k].class_name_id \in Utf8Ids)
    => aerr # "class not found"

\* C7: after a successful analyze the i-th frame carries the strings table's
\* entries for the three ids of the i-th Frame record, and every class carries
\* the strings table's entry for the class_name_id of the LoadClass record the
\* table holds for it (the last one), wherever the Utf8 records stand.
C7_NamesFromStrings ==
    apc = "done" =>
        /\ Len(frames) = Len(FrameRecords)
        /\ \A i \in 1..Len(frames) :
              /\ {FrameRecords[i].method_name_id, FrameRecords[i].method_signature_id,
                  FrameRecords[i].source_file_name_id} \subseteq DOMAIN strings
              /\ frames[i].method_name = strings[FrameRecords[i].method_name_id]
              /\ frames[i].method_signature = strings[FrameRecords[i].method_signature_id]
              /\ frames[i].source_file_name = strings[FrameRecords[i].source_file_name_id]
        /\ DOMAIN classes = LoadClassIds
        /\ \A c \in DOMAIN classes :
              LET lc == parsed_heap[Last("LoadClass", "class_object_id", c)] IN
              /\ lc.class_name_id \in DOMAIN strings
              /\ classes[c].name = strings[lc.class_name_id]

\* a LoadClass and a Frame stand before every Utf8 record they name
C7_Witness ==
    /\ apc = "done"
    /\ Len(frames) = 1
    /\ Len(parsed_heap) = 6
    /\ IsType(1, "LoadClass")
    /\ IsType(2, "Frame")
    /\ frames[1].method_signature = "b"
    /\ classes[10].name = "a"

\* C8: analyze returns an error, and no tables, whenever a Frame record names
\* a string id no Utf8 record defines, a LoadClass record names a
\* class_name_id no Utf8 record defines, or an InstanceDump names a
\* class_object_id no LoadClass record defines.
C8_DanglingIsFatal ==
    /\ (\/ \E k \in RecordIndexes :
              /\ IsType(k, "Frame")
              /\ ~({parsed_heap[k].method_name_id, parsed_heap[k].method_signature_id,
                    parsed_heap[k].source_file_name_id} \subseteq Utf8Ids)
        \/ \E k \in RecordIndexes :
              IsType(k, "LoadClass") /\ parsed_heap[k].class_name_id \notin Utf8Ids
        \/ \E kj \in InstanceDumps : InstanceAt(kj).class_object_id \notin LoadClassIds)
       => apc # "done"
    /\ apc = "error" =>
          /\ aerr # ""
          /\ strings = EmptyMap /\ classes = EmptyMap
          /\ frames = <<>> /\ instances = EmptyMap

\* a Frame whose third string id alone is undefined
C8_Witness ==
    /\ apc = "error"
    /\ aerr = "source file name string not found"
    /\ Utf8Ids = {1, 2}

\* C9: after a successful analyze every instance's class reference has the id
\* of its InstanceDump's class_object_id and the name of the returned class
\* table's entry for that id.
C9_InstanceClassMatchesTable ==
    apc = "done" =>
        \A o \in DOMAIN instances :
            /\ \E kj \in InstanceDumps :
                  /\ InstanceAt(kj).object_id = o
                  /\ InstanceAt(kj).class_object_id = instances[o].class.id
            /\ instances[o].class.id \in DOMAIN classes
            /\ instances[o].class.name = classes[instances[o].class.id].name

\* C10: the strings table holds exactly the name_ids of the Utf8 records, each
\* with the content of the last Utf8 record carrying it; it has as many
\* entries as there are Utf8 records when their name_ids are all distinct.
C10_StringsLastWins ==
    apc \in {"pass2", "done"} =>
        LET utf8s == {k \in RecordIndexes : IsType(k, "Utf8")} IN
        /\ DOMAIN strings = Utf8Ids
        /\ \A id \in DOMAIN strings :
              strings[id] = parsed_heap[Last("Utf8", "name_id", id)].content
        /\ (\A j, k \in utf8s : parsed_heap[j].name_id = parsed_heap[k].name_id => j = k)
              => Cardinality(DOMAIN strings) = Cardinality(utf8s)

\* two Utf8 records with one name_id, the later one with another content
C10_Witness ==
    /\ apc = "done"
    /\ Len(parsed_heap) >= 3
    /\ parsed_heap[1] = RUtf8(1, "b")
    /\ parsed_heap[2] = RUtf8(1, "a")
    /\ strings[1] = "a"

\* C11: in the output of a successful analyze no two entries of one table
\* carry the same id: not two classes, not two instances, not two frames
\* (strings is keyed by the id itself), also when two Frame records share a
\* stack_frame_id.
C11_IdsUnique ==
    apc = "done" =>
        /\ \A c1, c2 \in DOMAIN classes : classes[c1].id = classes[c2].id => c1 = c2
        /\ \A o1, o2 \in DOMAIN instances : instances[o1].id = instances[o2].id => o1 = o2
        /\ \A i, j \in 1..Len(frames) : frames[i].id = frames[j].id => i = j

\* C12: after a successful analyze frames has one element per Frame record
\* and its i-th element resolves the i-th Frame record of the list: the same
\* stack_frame_id, class_serial_number and line_number.
C12_FramesInListOrder ==
    apc = "done" =>
        /\ Len(frames) = Len(FrameRecords)
        /\ \A i \in 1..Len(FrameRecords) :
              /\ frames[i].id = FrameRecords[i].stack_frame_id
              /\ frames[i].class_serial_number = FrameRecords[i].class_serial_number
              /\ frames[i].line_number = FrameRecords[i].line_number

\* two different Frame records, the one with the larger id first
C12_Witness ==
    /\ apc = "done"
    /\ Len(frames) = 2
    /\ frames[1].id = 31 /\ frames[1].line_number = 8
    /\ frames[2].id = 30 /\ frames[2].line_number = 7

(***************************************************************************)
(* read_utf8 on its own: one call read_utf8(&mut cursor, size) on a cursor *)
(* at 0 over `input`, with size in bytes_remaining (Record::utf8 passes    *)
(* bytes_remaining - 8) and the returned String in version (as parse keeps *)
(* the banner).  Bytes: NUL, 'A', a continuation byte, 0xC0, and 0xC3      *)
(* (which with 0x80 after it is a well-formed two-byte sequence).          *)
(***************************************************************************)
Utf8Alphabet == {0, 65, 128, 192, 195}

\* the longest buffer read_utf8 is called on
MaxUtf8Len == 4

InitUtf8 ==
    /\ src = [header |-> "ok", items |-> <<>>]
    /\ input \in UNION {[1..m -> Utf8Alphabet] : m \in 0..MaxUtf8Len}
    /\ bytes_remaining \in 0..(Len(input) + 1)
    /\ pos = 0
    /\ pc = "read_utf8"
    /\ err = ""
    /\ version = <<>>
    /\ timestamp = <<>>
    /\ records = <<>>
    /\ micros = 0
    /\ start_position = 0
    /\ sub_records = <<>>
    /\ redecoded = FALSE
    /\ first_records = <<>>
    /\ AnalyzeIdle

ReadUtf8Call ==
    /\ pc = "read_utf8"
    /\ \E r \in {read_utf8(input, pos, bytes_remaining)} :
          IF r.ok
          THEN /\ version' = r.val
               /\ pos' = r.pos
               /\ pc' = "done"
               /\ UNCHANGED err
          ELSE /\ Fail(r)
               /\ UNCHANGED version
    /\ UNCHANGED <<src, input, timestamp, records, micros, bytes_remaining, start_position,
                   sub_records, redecoded, first_records, analyze_vars>>

NextUtf8 == ReadUtf8Call

SpecUtf8 == InitUtf8 /\ [][NextUtf8]_vars

\* the first `size` bytes of the input, the 1-based places where a 0xC0 0x80
\* pair starts in them, and the places that are not the second byte of a pair
Utf8Buf == SubSeq(input, 1, bytes_remaining)
PairStarts == {i \in 1..(bytes_remaining - 1) : Utf8Buf[i] = 192 /\ Utf8Buf[i + 1] = 128}
KeptPlaces == {i \in 1..bytes_remaining : (i - 1) \notin PairStarts}
\* the j-th kept place
KeptPlace(j) == CHOOSE i \in KeptPlaces : Cardinality({k \in KeptPlaces : k <= i}) = j

\* C15: read_utf8(n) consumes exactly n bytes; the string it returns is the
\* buffer with every 0xC0 0x80 pair replaced by one 0x00 and every other byte
\* unchanged, of length n - k for k pairs (never more than n).  A 0xC0 in the
\* last place is not taken for a pair (it is then no valid UTF-8: the call
\* returns the UTF-8 error, it does not read past the buffer).  A short input
\* is the only cause of the io error.
C15_JavaUtf8Substitution ==
    /\ pc = "done" =>
          /\ pos = bytes_remaining
          /\ Len(version) = bytes_remaining - Cardinality(PairStarts)
          /\ Len(version) <= bytes_remaining
          /\ \A j \in 1..Len(version) :
                version[j] = (IF KeptPlace(j) \in PairStarts THEN 0 ELSE Utf8Buf[KeptPlace(j)])
    /\ pc \in {"done", "error"} =>
          /\ pc # "panic"
          /\ (bytes_remaining > Len(input)) <=> (pc = "error" /\ err = "Io")
          /\ (pc = "error" /\ err # "Io") => (err = "BadUtf8" /\ pos = bytes_remaining)
          /\ (bytes_remaining \in 1..Len(input) /\ Utf8Buf[bytes_remaining] = 192)
                => (pc = "error" /\ err = "BadUtf8")
    /\ pc \in {"read_utf8", "done", "error"}

\* a pair in the middle of a three-byte read, one more byte after it in the input
C15_Witness ==
    /\ pc = "done"
    /\ bytes_remaining = 3 /\ Len(input) = 4
    /\ Utf8Buf = <<65, 192, 128>>
    /\ version = <<65, 0>>
    /\ pos = 3

(***************************************************************************)
(* SubRecord::new on its own: one call on a cursor at 0 over `input`, the  *)
(* bytes of one PrimArrayDump sub-record (tag 0x23, object id, serial,     *)
(* count, type byte) and whatever payload follows; the sub-record returned *)
(* is kept in sub_records.                                                 *)
(***************************************************************************)
\* the largest element count written
MaxPrimCount == 2

\* the type bytes written: the eight valid ones, 0x02 and others outside 4..11
PrimTypeBytes == (0..13) \cup {255}

InitPrim ==
    /\ src = [header |-> "ok", items |-> <<>>]
    /\ \E count \in 0..MaxPrimCount, typ \in PrimTypeBytes, len \in 0..(8 * MaxPrimCount + 1) :
          input = <<35>> \o E64(83) \o E32(1) \o E32(count) \o <<typ>> \o [i \in 1..len |-> 7]
    /\ pos = 0
    /\ pc = "sub_record"
    /\ err = ""
    /\ version = <<>>
    /\ timestamp = <<>>
    /\ records = <<>>
    /\ micros = 0
    /\ bytes_remaining = 0
    /\ start_position = 0
    /\ sub_records = <<>>
    /\ redecoded = FALSE
    /\ first_records = <<>>
    /\ AnalyzeIdle

SubRecordCall ==
    /\ pc = "sub_record"
    /\ \E s \in {SubRecordNew(input, pos)} :
          IF s.ok
          THEN /\ sub_records' = <<s.val>>
               /\ pos' = s.pos
               /\ pc' = "done"
               /\ UNCHANGED err
          ELSE /\ Fail(s)
               /\ UNCHANGED sub_records
    /\ UNCHANGED <<src, input, version, timestamp, records, micros, bytes_remaining,
                   start_position, redecoded, first_records, analyze_vars>>

NextPrim == SubRecordCall

SpecPrim == InitPrim /\ [][NextPrim]_vars

\* the count and the type byte as written, and the width of a valid type
PrimCount == ((input[14] * 256 + input[15]) * 256 + input[16]) * 256 + input[17]
PrimType == input[18]
PrimWidth == [t \in 4..11 |-> <<1, 2, 4, 8, 1, 2, 4, 8>>[t - 3]]

\* C16: a PrimArrayDump with element count 0 decodes to an empty elements
\* sequence for every type byte, valid or not, reading nothing after the type
\* byte; with a count above 0 and a type byte outside 4..11 (0x02 included)
\* it fails with the bad-array-type error; with a valid type it decodes
\* exactly when the payload holds count elements of the type's width.
C16_PrimArrayTypeAndCount ==
    pc \in {"done", "error"} =>
        /\ PrimCount = 0 =>
              /\ pc = "done"
              /\ pos = 18
              /\ sub_records[1].variant = "PrimArrayDump"
              /\ sub_records[1].typ = PrimType
              /\ sub_records[1].elements = <<>>
        /\ (PrimCount > 0 /\ PrimType \notin 4..11) =>
              (pc = "error" /\ err = "BadArrayType")
        /\ (PrimCount > 0 /\ PrimType \in 4..11) =>
              IF Len(input) - 18 >= PrimCount * PrimWidth[PrimType]
              THEN /\ pc = "done"
                   /\ Len(sub_records[1].elements) = PrimCount
                   /\ pos = 18 + PrimCount * PrimWidth[PrimType]
              ELSE pc = "error" /\ err = "Io"

\* count 0 with the type byte 0x02, bytes following
C16_Witness ==
    /\ pc = "done"
    /\ PrimCount = 0
    /\ PrimType = 2
    /\ Len(input) > 18
    /\ sub_records[1].elements = <<>>

====
